---- MODULE Spec2Model ----
(***************************************************************************)
(* A5 PII Anonymizer: the pseudonymization engine of fileProcessor.js      *)
(* (token merging, pseudonym registry, fuzzy replacement), the file        *)
(* dispatch of FileProcessor.processFile, the process-file IPC handler of  *)
(* main.js, the batch loop and daily limit of the renderer, and the path   *)
(* validation of the IPC handlers.                                         *)
(*                                                                         *)
(* Strings are sequences of one-character strings.                         *)
(***************************************************************************)
EXTENDS Integers, Sequences, FiniteSets, TLC

(***************************************************************************)
(* Characters and the character classes of the regular expressions.        *)
(***************************************************************************)
Uppers == <<"A","B","C","D","E","F","G","H","I","J","K","L","M","N","O","P","Q","R","S","T","U","V","W","X","Y","Z">>

Lowers == <<"a","b","c","d","e","f","g","h","i","j","k","l","m","n","o","p","q","r","s","t","u","v","w","x","y","z">>

DigitChars == <<"0","1","2","3","4","5","6","7","8","9">>

IsUpper(c) == \E i \in 1..26 : Uppers[i] = c

IsLower(c) == \E i \in 1..26 : Lowers[i] = c

IsDigit(c) == \E i \in 1..10 : DigitChars[i] = c

\* [a-zA-Z0-9]
IsAlnum(c) == IsUpper(c) \/ IsLower(c) \/ IsDigit(c)

\* \w
IsWordChar(c) == IsAlnum(c) \/ c = "_"

\* \s
IsSpace(c) == c \in {" ", "\t", "\n"}

\* the characters /[^\w\s.,'-]/ leaves in a token
IsKeptChar(c) == IsWordChar(c) \/ IsSpace(c) \/ c \in {".", ",", "'", "-"}

\* the characters escapeRegexChars prefixes with a backslash
IsRegexMeta(c) == c \in {"-", "/", "\\", "^", "$", "*", "+", "?", ".", "(", ")", "|", "[", "]", "{", "}"}

\* case folding of the 'i' flag
Canonicalize(c) == IF IsLower(c) THEN Uppers[CHOOSE i \in 1..26 : Lowers[i] = c] ELSE c

RECURSIVE Concat(_)
\* the concatenation of a sequence of strings
Concat(ss) == IF ss = <<>> THEN <<>> ELSE Head(ss) \o Concat(Tail(ss))

RECURSIVE TrimLeft(_)
TrimLeft(s) == IF s # <<>> /\ IsSpace(Head(s)) THEN TrimLeft(Tail(s)) ELSE s

RECURSIVE TrimRight(_)
TrimRight(s) == IF s # <<>> /\ IsSpace(s[Len(s)]) THEN TrimRight(SubSeq(s, 1, Len(s) - 1)) ELSE s

\* String.prototype.trim
Trim(s) == TrimRight(TrimLeft(s))

RECURSIVE NatToChars(_)
\* the decimal digits of a number, as template literals format it
NatToChars(n) == IF n < 10 THEN <<DigitChars[n + 1]>> ELSE NatToChars(n \div 10) \o <<DigitChars[(n % 10) + 1]>>

(***************************************************************************)
(* aggressiveMergeTokens                                                   *)
(***************************************************************************)
\* pred.entity.replace(/^(B-|I-)/, '')
StripTag(entity) == IF Len(entity) >= 2 /\ entity[1] \in {"B", "I"} /\ entity[2] = "-" THEN SubSeq(entity, 3, Len(entity)) ELSE entity

\* pred.word.replace(/\s+/g, '').replace(/[^\w\s.,'-]/g, '') and trim()
NormalizeWord(word) == Trim(SelectSeq(SelectSeq(word, LAMBDA c : ~IsSpace(c)), IsKeptChar))

RECURSIVE MergeFromFlushesOnEmpty(_, _, _, _)
\* mutant of MergeFrom: a token whose normalized text is empty closes the
\* open accumulator
MergeFromFlushesOnEmpty(predictions, i, merged, current) ==
  IF i > Len(predictions)
  THEN merged \o current
  ELSE LET type == StripTag(predictions[i].entity)
           word == NormalizeWord(predictions[i].word)
       IN  IF word = <<>>
           THEN MergeFromFlushesOnEmpty(predictions, i + 1, merged \o current, <<>>)
           ELSE IF current = <<>>
           THEN MergeFromFlushesOnEmpty(predictions, i + 1, merged, <<[type |-> type, text |-> word]>>)
           ELSE IF current[1].type = type
           THEN MergeFromFlushesOnEmpty(predictions, i + 1, merged, <<[type |-> type, text |-> current[1].text \o word]>>)
           ELSE MergeFromFlushesOnEmpty(predictions, i + 1, merged \o current, <<[type |-> type, text |-> word]>>)

RECURSIVE MergeFromSplitsOnBegin(_, _, _, _)
\* mutant of MergeFrom: a B- tag opens a new span
MergeFromSplitsOnBegin(predictions, i, merged, current) ==
  IF i > Len(predictions)
  THEN merged \o current
  ELSE LET type == StripTag(predictions[i].entity)
           word == NormalizeWord(predictions[i].word)
       IN  IF word = <<>>
           THEN MergeFromSplitsOnBegin(predictions, i + 1, merged, current)
           ELSE IF current = <<>>
           THEN MergeFromSplitsOnBegin(predictions, i + 1, merged, <<[type |-> type, text |-> word]>>)
           ELSE IF current[1].type = type /\ predictions[i].entity[1] # "B"
           THEN MergeFromSplitsOnBegin(predictions, i + 1, merged, <<[type |-> type, text |-> current[1].text \o word]>>)
           ELSE MergeFromSplitsOnBegin(predictions, i + 1, merged \o current, <<[type |-> type, text |-> word]>>)

RECURSIVE MergeFromNoFlush(_, _, _, _)
\* mutant of MergeFrom: the open accumulator is not pushed at the end
MergeFromNoFlush(predictions, i, merged, current) ==
  IF i > Len(predictions)
  THEN merged
  ELSE LET type == StripTag(predictions[i].entity)
           word == NormalizeWord(predictions[i].word)
       IN  IF word = <<>>
           THEN MergeFromNoFlush(predictions, i + 1, merged, current)
           ELSE IF current = <<>>
           THEN MergeFromNoFlush(predictions, i + 1, merged, <<[type |-> type, text |-> word]>>)
           ELSE IF current[1].type = type
           THEN MergeFromNoFlush(predictions, i + 1, merged, <<[type |-> type, text |-> current[1].text \o word]>>)
           ELSE MergeFromNoFlush(predictions, i + 1, merged \o current, <<[type |-> type, text |-> word]>>)

RECURSIVE MergeFrom(_, _, _, _)
\* the loop of aggressiveMergeTokens from prediction i on; current is <<>> (null)
\* or a one-element sequence holding the open accumulator
MergeFrom(predictions, i, merged, current) ==
  IF i > Len(predictions)
  THEN merged \o current
  ELSE LET type == StripTag(predictions[i].entity)
           word == NormalizeWord(predictions[i].word)
       IN  IF word = <<>>
           THEN MergeFrom(predictions, i + 1, merged, current)
           ELSE IF current = <<>>
           THEN MergeFrom(predictions, i + 1, merged, <<[type |-> type, text |-> word]>>)
           ELSE IF current[1].type = type
           THEN MergeFrom(predictions, i + 1, merged, <<[type |-> type, text |-> current[1].text \o word]>>)
           ELSE MergeFrom(predictions, i + 1, merged \o current, <<[type |-> type, text |-> word]>>)

aggressiveMergeTokens(predictions) == IF Len(predictions) = 0 THEN <<>> ELSE MergeFrom(predictions, 1, <<>>, <<>>)

(***************************************************************************)
(* escapeRegexChars, buildFuzzyRegex and the matching of the pattern       *)
(***************************************************************************)
RECURSIVE escapeRegexChars(_)
escapeRegexChars(str) ==
  IF str = <<>> THEN <<>>
  ELSE (IF IsRegexMeta(Head(str)) THEN <<"\\", Head(str)>> ELSE <<Head(str)>>) \o escapeRegexChars(Tail(str))

\* mergedString.replace(/[^\w]/g, '')
StripPunctuation(mergedString) == SelectSeq(mergedString, IsWordChar)

\* The pattern is the sequence of its literal characters, each one followed by
\* [^a-zA-Z0-9]*; <<>> is null (no pattern).
buildFuzzyRegex(mergedString) ==
  LET noPunc == StripPunctuation(mergedString)
  IN  IF noPunc = <<>> THEN <<>> ELSE escapeRegexChars(noPunc)

RECURSIVE SeparatorRun(_, _)
\* the length of the longest run of [^a-zA-Z0-9] that starts at text[pos]
SeparatorRun(text, pos) == IF pos <= Len(text) /\ ~IsAlnum(text[pos]) THEN 1 + SeparatorRun(text, pos + 1) ELSE 0

RECURSIVE MatchFrom(_, _, _, _)
RECURSIVE MatchRun(_, _, _, _, _)
\* Matches pattern[k..] at text[pos..]: the position after the match, 0 when
\* there is none.  Each [^a-zA-Z0-9]* is greedy and gives back on failure.
MatchFrom(pattern, k, text, pos) ==
  IF k > Len(pattern) THEN pos
  ELSE IF pos > Len(text) \/ Canonicalize(text[pos]) # Canonicalize(pattern[k]) THEN 0
  ELSE MatchRun(pattern, k, text, pos + 1, SeparatorRun(text, pos + 1))

MatchRun(pattern, k, text, start, j) ==
  LET r == MatchFrom(pattern, k + 1, text, start + j)
  IN  IF r # 0 THEN r ELSE IF j = 0 THEN 0 ELSE MatchRun(pattern, k, text, start, j - 1)

\* the position after the match of the pattern that starts at pos, 0 if none
MatchAt(pattern, text, pos) == MatchFrom(pattern, 1, text, pos)

RECURSIVE ReplaceFrom(_, _, _, _)
\* String.prototype.replace with a global pattern, from position pos on.
\* value.inherited: the replacement is the function Object, which returns the match
ReplaceFrom(pattern, text, pos, value) ==
  IF pos > Len(text) THEN <<>>
  ELSE LET e == MatchAt(pattern, text, pos)
       IN  IF e = 0
           THEN <<text[pos]>> \o ReplaceFrom(pattern, text, pos + 1, value)
           ELSE (IF value.inherited THEN SubSeq(text, pos, e - 1) ELSE value.str) \o ReplaceFrom(pattern, text, e, value)

\* processedText.replace(fuzzyRegex, pseudonym)
ReplaceAll(pattern, text, value) == ReplaceFrom(pattern, text, 1, value)

(***************************************************************************)
(* The pseudonym registry: pseudonymMapping, pseudonymCounters,            *)
(* getPseudonym.  A registry value is [mapping, counters], both functions  *)
(* whose domain is the set of keys the object holds.                       *)
(***************************************************************************)
\* pseudonymMapping is a plain object ({}): a key it does not hold itself is
\* looked up in Object.prototype, where "constructor" is the function Object.
\* The other members of Object.prototype (toString, valueOf, ...) are found
\* the same way; they are not among the entity texts of the inputs below.
ConstructorKey == <<"c","o","n","s","t","r","u","c","t","o","r">>

\* the value returned for a key found in the prototype chain
InheritedValue == [inherited |-> TRUE, str |-> <<>>]

\* a pseudonym string
StringValue(s) == [inherited |-> FALSE, str |-> s]

\* `${entityType}_${n}`
FormatPseudonym(entityType, n) == entityType \o <<"_">> \o NatToChars(n)

\* mutant of CounterOf: a missing counter starts at 0
CounterFromZero(counters, entityType) == IF entityType \in DOMAIN counters THEN counters[entityType] ELSE 0

\* !pseudonymCounters[entityType] ? 1 : pseudonymCounters[entityType]
CounterOf(counters, entityType) == IF entityType \in DOMAIN counters THEN counters[entityType] ELSE 1

\* mutant of getPseudonym: the lookup of an existing entry is missing
getPseudonymNoLookup(mapping, counters, entityText, entityType) ==
  LET n == IF entityType \in DOMAIN counters THEN counters[entityType] ELSE 1
      pseudonym == entityType \o <<"_">> \o NatToChars(n)
  IN  [value |-> [inherited |-> FALSE, str |-> pseudonym],
       mapping |-> (entityText :> pseudonym) @@ mapping,
       counters |-> (entityType :> n + 1) @@ counters,
       allocated |-> TRUE]

\* mutant of getPseudonym: an entry is reused only under the type it was
\* created for, and is overwritten otherwise
getPseudonymByType(mapping, counters, entityText, entityType) ==
  LET n == IF entityType \in DOMAIN counters THEN counters[entityType] ELSE 1
      pseudonym == entityType \o <<"_">> \o NatToChars(n)
      prefix == entityType \o <<"_">>
  IN  IF entityText \in DOMAIN mapping /\ SubSeq(mapping[entityText], 1, Len(prefix)) = prefix
      THEN [value |-> [inherited |-> FALSE, str |-> mapping[entityText]], mapping |-> mapping, counters |-> counters, allocated |-> FALSE]
      ELSE [value |-> [inherited |-> FALSE, str |-> pseudonym],
            mapping |-> (entityText :> pseudonym) @@ mapping,
            counters |-> (entityType :> n + 1) @@ counters,
            allocated |-> TRUE]

\* mutant of getPseudonym: a registered text resolved under a type that has
\* no counter yet creates the counter
getPseudonymTouchesCounter(mapping, counters, entityText, entityType) ==
  LET n == IF entityType \in DOMAIN counters THEN counters[entityType] ELSE 1
      pseudonym == entityType \o <<"_">> \o NatToChars(n)
  IN  IF entityText \in DOMAIN mapping
      THEN [value |-> [inherited |-> FALSE, str |-> mapping[entityText]], mapping |-> mapping,
            counters |-> (entityType :> n) @@ counters, allocated |-> FALSE]
      ELSE IF entityText = <<"c","o","n","s","t","r","u","c","t","o","r">>
      THEN [value |-> [inherited |-> TRUE, str |-> <<>>], mapping |-> mapping, counters |-> counters, allocated |-> FALSE]
      ELSE [value |-> [inherited |-> FALSE, str |-> pseudonym],
            mapping |-> (entityText :> pseudonym) @@ mapping,
            counters |-> (entityType :> n + 1) @@ counters,
            allocated |-> TRUE]

\* mutant of getPseudonym: the counter is read but not advanced
getPseudonymKeepsCounter(mapping, counters, entityText, entityType) ==
  LET n == IF entityType \in DOMAIN counters THEN counters[entityType] ELSE 1
      pseudonym == entityType \o <<"_">> \o NatToChars(n)
  IN  IF entityText \in DOMAIN mapping
      THEN [value |-> [inherited |-> FALSE, str |-> mapping[entityText]], mapping |-> mapping, counters |-> counters, allocated |-> FALSE]
      ELSE IF entityText = <<"c","o","n","s","t","r","u","c","t","o","r">>
      THEN [value |-> [inherited |-> TRUE, str |-> <<>>], mapping |-> mapping, counters |-> counters, allocated |-> FALSE]
      ELSE [value |-> [inherited |-> FALSE, str |-> pseudonym],
            mapping |-> (entityText :> pseudonym) @@ mapping,
            counters |-> (entityType :> n) @@ counters,
            allocated |-> TRUE]

\* getPseudonym: the value returned and the registry afterwards
getPseudonym(mapping, counters, entityText, entityType) ==
  IF entityText \in DOMAIN mapping
  THEN [value |-> StringValue(mapping[entityText]), mapping |-> mapping, counters |-> counters, allocated |-> FALSE]
  ELSE IF entityText = ConstructorKey
  THEN [value |-> InheritedValue, mapping |-> mapping, counters |-> counters, allocated |-> FALSE]
  ELSE LET n == CounterOf(counters, entityType)
           pseudonym == FormatPseudonym(entityType, n)
       IN  [value |-> StringValue(pseudonym),
            mapping |-> (entityText :> pseudonym) @@ mapping,
            counters |-> (entityType :> n + 1) @@ counters,
            allocated |-> TRUE]

(***************************************************************************)
(* anonymizeText, from the classifier's answer on: merge, then one         *)
(* replacement per merged span over the text the earlier spans rewrote.    *)
(***************************************************************************)
\* One iteration of the loop over merged: what it resolved and replaced.
\* pattern = <<>> records that the span was skipped for want of a pattern.
SpanStep(call, obj, value, allocated, pattern, before, after) ==
  [call |-> call, type |-> obj.type, text |-> obj.text, value |-> value, allocated |-> allocated,
   pattern |-> pattern, before |-> before, after |-> after]

RECURSIVE ReplaceLoopBreaks(_, _, _, _, _, _, _)
\* mutant of ReplaceLoop: a span without a pattern ends the loop (break for continue)
ReplaceLoopBreaks(call, merged, i, processedText, mapping, counters, steps) ==
  IF i > Len(merged)
  THEN [text |-> processedText, mapping |-> mapping, counters |-> counters, steps |-> steps]
  ELSE LET obj == merged[i]
       IN  IF obj.text = <<>>
           THEN ReplaceLoopBreaks(call, merged, i + 1, processedText, mapping, counters, steps)
           ELSE LET got == getPseudonym(mapping, counters, obj.text, obj.type)
                    fuzzyRegex == buildFuzzyRegex(obj.text)
                    replaced == IF fuzzyRegex = <<>> THEN processedText ELSE ReplaceAll(fuzzyRegex, processedText, got.value)
                    step == SpanStep(call, obj, got.value, got.allocated, fuzzyRegex, processedText, replaced)
                IN  IF fuzzyRegex = <<>>
                    THEN [text |-> processedText, mapping |-> got.mapping, counters |-> got.counters, steps |-> Append(steps, step)]
                    ELSE ReplaceLoopBreaks(call, merged, i + 1, replaced, got.mapping, got.counters, Append(steps, step))

RECURSIVE ReplaceLoop(_, _, _, _, _, _, _)
\* for (const obj of merged) { ... }, from span i on
ReplaceLoop(call, merged, i, processedText, mapping, counters, steps) ==
  IF i > Len(merged)
  THEN [text |-> processedText, mapping |-> mapping, counters |-> counters, steps |-> steps]
  ELSE LET obj == merged[i]
       IN  IF obj.text = <<>>
           THEN ReplaceLoop(call, merged, i + 1, processedText, mapping, counters, steps)
           ELSE LET got == getPseudonym(mapping, counters, obj.text, obj.type)
                    fuzzyRegex == buildFuzzyRegex(obj.text)
                    replaced == IF fuzzyRegex = <<>> THEN processedText ELSE ReplaceAll(fuzzyRegex, processedText, got.value)
                IN  ReplaceLoop(call, merged, i + 1, replaced, got.mapping, got.counters,
                                Append(steps, SpanStep(call, obj, got.value, got.allocated, fuzzyRegex, processedText, replaced)))

\* mutant of anonymizeText: every call advances a counter of its own
anonymizeTextCountsCall(call, text, predictions, mapping, counters) ==
  LET done == ReplaceLoop(call, aggressiveMergeTokens(predictions), 1, text, mapping, counters, <<>>)
      n == IF <<"C","A","L","L">> \in DOMAIN done.counters THEN done.counters[<<"C","A","L","L">>] ELSE 1
  IN  [done EXCEPT !.counters = (<<"C","A","L","L">> :> n + 1) @@ done.counters]

\* anonymizeText(text) once ner(processedText) has answered with predictions
anonymizeText(call, text, predictions, mapping, counters) ==
  ReplaceLoop(call, aggressiveMergeTokens(predictions), 1, text, mapping, counters, <<>>)

(***************************************************************************)
(* Inputs.  A text unit is a text and the classifier's answer for it; the  *)
(* classifier is an external collaborator, so the answer is an input.      *)
(* The confidence score of a prediction is never read and is left out.     *)
(***************************************************************************)
MaxTokens == 3

\* token texts of the enumerated documents
Words == {<<"a">>, <<" ","b">>, <<"-">>}

\* labels of the enumerated documents: begin/inside tags of two types, and outside
Labels == {<<"B","-","P">>, <<"I","-","P">>, <<"B","-","L">>, <<"O">>}

Tokens == [word : Words, entity : Labels]

\* every token sequence of at most MaxTokens tokens
TokenSeqs == UNION {[1..k -> Tokens] : k \in 0..MaxTokens}

\* the words of a token sequence, in order
WordsOf(tokens) == [i \in 1..Len(tokens) |-> tokens[i].word]

\* the text unit whose text is the concatenation of its tokens
UnitOf(tokens) == [text |-> Concat(WordsOf(tokens)), predictions |-> tokens]

RECURSIVE SplitAt(_, _, _, _)
\* the text units of a document cut after the token positions in cuts
SplitAt(tokens, cuts, start, i) ==
  IF i > Len(tokens) THEN (IF start > Len(tokens) THEN <<>> ELSE <<UnitOf(SubSeq(tokens, start, Len(tokens)))>>)
  ELSE IF i \in cuts THEN <<UnitOf(SubSeq(tokens, start, i))>> \o SplitAt(tokens, cuts, i + 1, i + 1)
  ELSE SplitAt(tokens, cuts, start, i + 1)

\* a document (cells, paragraphs) as the sequence of its text units
EnumeratedDocuments == {SplitAt(d, cuts, 1, 1) : <<d, cuts>> \in {<<d, cuts>> \in TokenSeqs \X SUBSET (1..MaxTokens) : cuts \subseteq 1..(Len(d) - 1)}}

MaxMergeTokens == 3

\* token texts of the predictions given to the merger: a word, a word with a
\* leading space and a full stop, and two that normalize to the empty string
MergeWords == {<<"a">>, <<" ","b",".">>, <<"!">>, <<" ">>}

MergeTokens == [word : MergeWords, entity : Labels]

\* every prediction sequence of at most MaxMergeTokens tokens
MergeTokenSeqs == UNION {[1..k -> MergeTokens] : k \in 0..MaxMergeTokens}

\* "John Smith lives at 123 Main St. Contact John Smith at 555-1234."
ScenarioText == <<"J","o","h","n"," ","S","m","i","t","h"," ","l","i","v","e","s"," ","a","t"," ","1","2","3"," ","M","a","i","n"," ","S","t","."," ","C","o","n","t","a","c","t"," ","J","o","h","n"," ","S","m","i","t","h"," ","a","t"," ","5","5","5","-","1","2","3","4",".">>

\* "PERSON_1 lives at LOCATION_1. Contact PERSON_1 at PHONE_1."
ScenarioExpected == <<"P","E","R","S","O","N","_","1"," ","l","i","v","e","s"," ","a","t"," ","L","O","C","A","T","I","O","N","_","1","."," ","C","o","n","t","a","c","t"," ","P","E","R","S","O","N","_","1"," ","a","t"," ","P","H","O","N","E","_","1",".">>

\* the scenario's predictions with the outside tokens, as HOW_IT_WORKS.md lists them
ScenarioPredictions ==
  <<[word |-> <<"J","o","h","n">>, entity |-> <<"B","-","P","E","R","S","O","N">>],
     [word |-> <<" ","S","m","i","t","h">>, entity |-> <<"I","-","P","E","R","S","O","N">>],
     [word |-> <<" ","l","i","v","e","s">>, entity |-> <<"O">>],
     [word |-> <<" ","a","t">>, entity |-> <<"O">>],
     [word |-> <<" ","1","2","3">>, entity |-> <<"B","-","L","O","C","A","T","I","O","N">>],
     [word |-> <<" ","M","a","i","n">>, entity |-> <<"I","-","L","O","C","A","T","I","O","N">>],
     [word |-> <<" ","S","t">>, entity |-> <<"I","-","L","O","C","A","T","I","O","N">>],
     [word |-> <<".">>, entity |-> <<"O">>],
     [word |-> <<" ","C","o","n","t","a","c","t">>, entity |-> <<"O">>],
     [word |-> <<" ","J","o","h","n">>, entity |-> <<"B","-","P","E","R","S","O","N">>],
     [word |-> <<" ","S","m","i","t","h">>, entity |-> <<"I","-","P","E","R","S","O","N">>],
     [word |-> <<" ","a","t">>, entity |-> <<"O">>],
     [word |-> <<" ","5","5","5">>, entity |-> <<"B","-","P","H","O","N","E">>],
     [word |-> <<"-">>, entity |-> <<"I","-","P","H","O","N","E">>],
     [word |-> <<"1","2","3","4">>, entity |-> <<"I","-","P","H","O","N","E">>],
     [word |-> <<".">>, entity |-> <<"O">>]>>

\* the scenario's predictions when the classifier reports entity tokens only
ScenarioEntityPredictions ==
  <<[word |-> <<"J","o","h","n">>, entity |-> <<"B","-","P","E","R","S","O","N">>],
     [word |-> <<" ","S","m","i","t","h">>, entity |-> <<"I","-","P","E","R","S","O","N">>],
     [word |-> <<" ","1","2","3">>, entity |-> <<"B","-","L","O","C","A","T","I","O","N">>],
     [word |-> <<" ","M","a","i","n">>, entity |-> <<"I","-","L","O","C","A","T","I","O","N">>],
     [word |-> <<" ","S","t">>, entity |-> <<"I","-","L","O","C","A","T","I","O","N">>],
     [word |-> <<" ","J","o","h","n">>, entity |-> <<"B","-","P","E","R","S","O","N">>],
     [word |-> <<" ","S","m","i","t","h">>, entity |-> <<"I","-","P","E","R","S","O","N">>],
     [word |-> <<" ","5","5","5">>, entity |-> <<"B","-","P","H","O","N","E">>],
     [word |-> <<"-">>, entity |-> <<"I","-","P","H","O","N","E">>],
     [word |-> <<"1","2","3","4">>, entity |-> <<"I","-","P","H","O","N","E">>]>>

ScenarioUnit == [text |-> ScenarioText, predictions |-> ScenarioPredictions]

ScenarioEntityUnit == [text |-> ScenarioText, predictions |-> ScenarioEntityPredictions]

\* a job title that is also a member of Object.prototype, mentioned twice
ConstructorUnit == UnitOf(<<[word |-> <<"c","o","n","s","t","r","u","c","t","o","r">>, entity |-> <<"B","-","J","O","B","T","I","T","L","E">>],
     [word |-> <<" ","a","n","d">>, entity |-> <<"O">>],
     [word |-> <<" ","c","o","n","s","t","r","u","c","t","o","r">>, entity |-> <<"B","-","J","O","B","T","I","T","L","E">>]>>)

\* processText("")
EmptyUnit == UnitOf(<<>>)

\* three cells of one sheet: "Ann", "Bob met Ann", "Cy"
AnnUnit == UnitOf(<<[word |-> <<"A","n","n">>, entity |-> <<"B","-","P","E","R">>]>>)

BobMetAnnUnit == UnitOf(<<[word |-> <<"B","o","b">>, entity |-> <<"B","-","P","E","R">>], [word |-> <<" ","m","e","t">>, entity |-> <<"O">>], [word |-> <<" ","A","n","n">>, entity |-> <<"B","-","P","E","R">>]>>)

CyUnit == UnitOf(<<[word |-> <<"C","y">>, entity |-> <<"B","-","P","E","R">>]>>)

\* "John Smith, John-Smith, JOHN SMITH", the classifier reporting the name once
FuzzyText == <<"J","o","h","n"," ","S","m","i","t","h",","," ","J","o","h","n","-","S","m","i","t","h",","," ","J","O","H","N"," ","S","M","I","T","H">>

FuzzyUnit == [text |-> FuzzyText, predictions |-> <<[word |-> <<"J","o","h","n">>, entity |-> <<"B","-","P","E","R">>], [word |-> <<" ","S","m","i","t","h">>, entity |-> <<"I","-","P","E","R">>]>>]

\* a user name whose merged text keeps its underscore: \w holds "_"
UnderscoreUnit == UnitOf(<<[word |-> <<"a","_","b">>, entity |-> <<"B","-","U","S","E","R","N","A","M","E">>]>>)

\* the predictions ("John","B-PER"), (" Smith","I-PER"), (" works","O"), ("London","B-LOC")
MergeExamplePredictions == <<[word |-> <<"J","o","h","n">>, entity |-> <<"B","-","P","E","R">>], [word |-> <<" ","S","m","i","t","h">>, entity |-> <<"I","-","P","E","R">>], [word |-> <<" ","w","o","r","k","s">>, entity |-> <<"O">>], [word |-> <<"L","o","n","d","o","n">>, entity |-> <<"B","-","L","O","C">>]>>

MergeExampleUnit == UnitOf(MergeExamplePredictions)

\* "1, 1 Elm": a building number, then a street that begins with the same digit
StreetText == <<"1",","," ","1"," ","E","l","m">>

StreetUnit == [text |-> StreetText, predictions |-> <<[word |-> <<"1">>, entity |-> <<"B","-","N","U","M">>], [word |-> <<" ","1">>, entity |-> <<"B","-","S","T","R","E","E","T">>], [word |-> <<" ","E","l","m">>, entity |-> <<"I","-","S","T","R","E","E","T">>]>>]

\* "John Smith lives at 123 Main Street. Contact John Smith at john.smith@email.com."
Step7Text == <<"J","o","h","n"," ","S","m","i","t","h"," ","l","i","v","e","s"," ","a","t"," ","1","2","3"," ","M","a","i","n"," ","S","t","r","e","e","t","."," ","C","o","n","t","a","c","t"," ","J","o","h","n"," ","S","m","i","t","h"," ","a","t"," ","j","o","h","n",".","s","m","i","t","h","@","e","m","a","i","l",".","c","o","m",".">>

\* the predictions behind the merged spans of the complete example: a person,
\* a location and an e-mail address
Step7Predictions ==
  <<[word |-> <<"J","o","h","n">>, entity |-> <<"B","-","P","E","R">>],
     [word |-> <<" ","S","m","i","t","h">>, entity |-> <<"I","-","P","E","R">>],
     [word |-> <<" ","1","2","3">>, entity |-> <<"B","-","L","O","C">>],
     [word |-> <<" ","M","a","i","n">>, entity |-> <<"I","-","L","O","C">>],
     [word |-> <<" ","S","t","r","e","e","t">>, entity |-> <<"I","-","L","O","C">>],
     [word |-> <<" ","j","o","h","n",".","s","m","i","t","h","@","e","m","a","i","l",".","c","o","m">>, entity |-> <<"B","-","E","M","A","I","L">>]>>

Step7Unit == [text |-> Step7Text, predictions |-> Step7Predictions]

ScenarioDocuments ==
  {<<ScenarioUnit>>, <<ScenarioEntityUnit>>, <<ConstructorUnit>>, <<EmptyUnit>>, <<AnnUnit, BobMetAnnUnit, CyUnit>>,
   <<FuzzyUnit>>, <<UnderscoreUnit>>, <<MergeExampleUnit>>, <<AnnUnit, EmptyUnit, CyUnit>>, <<StreetUnit>>, <<Step7Unit>>}

Documents == EnumeratedDocuments \cup ScenarioDocuments

(***************************************************************************)
(* Files and FileProcessor's static helpers.  A file is its name and the   *)
(* text units processFile extracts from it: the whole content of a text,   *)
(* word-processor or PDF file, the string cells of a workbook.             *)
(***************************************************************************)
MaxRequests == 2

Requests == 1..MaxRequests

\* String.prototype.toLowerCase
ToLowerCase(str) == [i \in 1..Len(str) |-> IF IsUpper(str[i]) THEN Lowers[CHOOSE k \in 1..26 : Uppers[k] = str[i]] ELSE str[i]]

\* path.extname of a base name: from its last "." on, "" when there is none
\* or when the only one is the first character
extname(name) ==
  LET dots == {i \in 2..Len(name) : name[i] = "."}
  IN  IF dots = {} THEN <<>> ELSE SubSeq(name, CHOOSE i \in dots : \A j \in dots : j <= i, Len(name))

\* const useLLM = true
useLLM == TRUE

\* "Anonymized\n\n"
AnonymizedHeader == <<"A","n","o","n","y","m","i","z","e","d","\n","\n">>

SupportedTypes == {<<".","d","o","c">>, <<".","d","o","c","x">>, <<".","x","l","s">>, <<".","x","l","s","x">>, <<".","c","s","v">>, <<".","p","d","f">>, <<".","t","x","t">>}

\* FileProcessor.validateFileType
validateFileType(filePath) == ToLowerCase(extname(filePath)) \in SupportedTypes

\* renderer addFile: the extensions a file must have to enter the selection
addFileAccepts(filePath) == ToLowerCase(extname(filePath)) \in SupportedTypes

\* FileProcessor.generateOutputFileName
generateOutputFileName(originalName) ==
  LET ext == extname(originalName)
      baseName == SubSeq(originalName, 1, Len(originalName) - Len(ext))
  IN  baseName \o <<"-","a","n","o","n">> \o ext

\* the branch of processFile a file takes, by path.extname(filePath).toLowerCase()
FileKind(filePath) ==
  LET ext == ToLowerCase(extname(filePath))
  IN  IF ext \in {<<".","t","x","t">>, <<".","c","s","v">>} THEN "text"
      ELSE IF ext = <<".","x","l","s","x">> THEN "xlsx"
      ELSE IF ext = <<".","d","o","c","x">> THEN "docx"
      ELSE IF ext = <<".","p","d","f">> THEN "pdf"
      ELSE "copy"

NoFile == [name |-> <<>>, cells |-> <<>>]

\* the texts of a file as they are on disk
RawContent(f) == [i \in 1..Len(f.cells) |-> f.cells[i].text]

Files ==
  {[name |-> <<"a",".","t","x","t">>, cells |-> <<AnnUnit>>],
   [name |-> <<"b",".","C","S","V">>, cells |-> <<BobMetAnnUnit>>],
   [name |-> <<"c",".","x","l","s","x">>, cells |-> <<AnnUnit, BobMetAnnUnit>>],
   [name |-> <<"d",".","d","o","c","x">>, cells |-> <<BobMetAnnUnit>>],
   [name |-> <<"e",".","p","d","f">>, cells |-> <<AnnUnit>>],
   [name |-> <<"f",".","d","o","c">>, cells |-> <<AnnUnit>>],
   [name |-> <<"g",".","x","l","s">>, cells |-> <<AnnUnit, BobMetAnnUnit>>],
   [name |-> <<"h",".","x","l","s","x">>, cells |-> <<>>]}

(***************************************************************************)
(* State                                                                   *)
(***************************************************************************)
VARIABLES
  pseudonymMapping,   \* fileProcessor.js: text -> pseudonym
  pseudonymCounters,  \* fileProcessor.js: type -> next suffix
  nerPipeline,        \* fileProcessor.js: "null" or "loaded"
  queue,              \* the text units of the document still to anonymize
  calls,              \* number of anonymizeText calls that reached the merge
  lastCall,           \* the latest such call: its input, merged spans, steps, result
  journal,            \* every span step of every call, in order
  isLLMInitialized,   \* main.js
  handlers,           \* the invocations of the process-file handler
  userState,          \* renderer: isPro, dailyCount, dailyDate
  selectedFiles,      \* renderer: the paths selected, in order
  processButton,      \* renderer: disabled and innerHTML of the process button
  statusDiv,          \* renderer: what showStatus displayed last
  batches,            \* renderer: the invocations of processFiles
  today,              \* the local date getLocalDateString() returns
  sentSinceReset,     \* process-file requests sent for a free user since dailyCount was last reset
  clicks,             \* number of clicks on the process button so far
  lastEnded,          \* the invocation of processFiles that ended last, and how
  ipcLog              \* main.js: the IPC calls handled, with their file-system accesses

engineVars == <<pseudonymMapping, pseudonymCounters, nerPipeline, queue, calls, lastCall, journal, isLLMInitialized, handlers>>

rendererVars == <<userState, selectedFiles, processButton, statusDiv, batches, today, sentSinceReset, clicks, lastEnded>>

vars == <<engineVars, rendererVars, ipcLog>>

NoCall == [text |-> <<>>, predictions |-> <<>>, merged |-> <<>>, steps |-> <<>>, result |-> <<>>]

\* a handler invocation that has not been made yet
NoHandler == [pc |-> "idle", file |-> NoFile, cell |-> 0, texts |-> <<>>, reply |-> "none", written |-> <<>>, failed |-> "none"]

\* the module-level state of fileProcessor.js and main.js right after import
InitEngine ==
  /\ pseudonymMapping = <<>>
  /\ pseudonymCounters = <<>>
  /\ nerPipeline = "null"
  /\ calls = 0
  /\ lastCall = NoCall
  /\ journal = <<>>
  /\ isLLMInitialized = FALSE
  /\ handlers = [r \in Requests |-> NoHandler]

(***************************************************************************)
(* The renderer's state: userState, the selection, the process button, the *)
(* status line and the invocations of processFiles.                        *)
(***************************************************************************)
\* the free tier's files per day
DailyLimit == 100

MaxBatches == 2

MaxClicks == 2

MaxDays == 2

\* the invocations of processFiles that can be under way together
Batches == 1..MaxBatches

\* paths the user drops or picks; the last one has an extension addFile refuses
SelectablePaths == {<<"a",".","t","x","t">>, <<"c",".","x","l","s","x">>, <<"n",".","e","x","e">>}

\* dailyCount as loadUserState restores it: a first launch, or a launch on a
\* day on which files were already processed
RestoredCounts == {0, DailyLimit - 3}

ButtonLabel == "Anonymize Files"

BusyLabel == "Anonymizing..."

\* showStatus(message, type)
showStatus(message, type) == [message |-> message, type |-> type]

NoStatus == showStatus("none", "hidden")

\* an invocation of processFiles that has not been made
NoBatch == [pc |-> "idle", i |-> 0, total |-> 0, processedCount |-> 0, oldButtonText |-> "", file |-> <<>>,
            failed |-> FALSE, cut |-> FALSE]

\* no invocation of processFiles has ended yet
NoneEnded == [how |-> "none", failed |-> FALSE, cut |-> FALSE, shown |-> NoStatus]

\* checkDailyReset
checkDailyReset(state, day) == IF state.dailyDate # day THEN [state EXCEPT !.dailyDate = day, !.dailyCount = 0] ELSE state

\* the renderer once renderer.js has run: loadUserState() has restored the plan
\* and the count of today's files, nothing is selected
InitRenderer(isPro, count, disabled) ==
  /\ today = 1
  /\ userState = checkDailyReset([isPro |-> isPro, dailyCount |-> count, dailyDate |-> 1], 1)
  /\ selectedFiles = <<>>
  /\ processButton = [disabled |-> disabled, innerHTML |-> ButtonLabel]
  /\ statusDiv = NoStatus
  /\ batches = [b \in Batches |-> NoBatch]
  /\ sentSinceReset = (IF isPro THEN 0 ELSE count)
  /\ clicks = 0
  /\ lastEnded = NoneEnded

\* main.js has handled no IPC call yet
InitMain == ipcLog = <<>>

\* The synchronous part of anonymizeText(unit.text), entered when ner() has
\* answered unit.predictions: it runs to the return without interruption.
AnonymizeAnswered(unit) ==
  LET done == anonymizeText(calls + 1, unit.text, unit.predictions, pseudonymMapping, pseudonymCounters)
  IN  /\ pseudonymMapping' = done.mapping
      /\ pseudonymCounters' = done.counters
      /\ calls' = calls + 1
      /\ lastCall' = [text |-> unit.text, predictions |-> unit.predictions,
                      merged |-> aggressiveMergeTokens(unit.predictions), steps |-> done.steps, result |-> done.text]
      /\ journal' = journal \o done.steps

(***************************************************************************)
(* TextSpec: the text units of one document are anonymized one after       *)
(* another against the shared registry, the model loading and the          *)
(* classifier answering every time.                                        *)
(***************************************************************************)
TextInit == InitEngine /\ InitRenderer(FALSE, 0, TRUE) /\ InitMain /\ queue \in Documents

\* await anonymizeText(Head(queue)), the model loaded on the first call
AnonymizeUnit ==
  /\ queue # <<>>
  /\ nerPipeline' = "loaded"
  /\ AnonymizeAnswered(Head(queue))
  /\ queue' = Tail(queue)
  /\ UNCHANGED <<isLLMInitialized, handlers, rendererVars, ipcLog>>

TextNext == AnonymizeUnit

TextSpec == TextInit /\ [][TextNext]_vars

(***************************************************************************)
(* MergeSpec: one text unit is anonymized, the classifier's answer ranging *)
(* over the prediction sequences of MergeTokenSeqs.                        *)
(***************************************************************************)
MergeInit == InitEngine /\ InitRenderer(FALSE, 0, TRUE) /\ InitMain /\ queue \in {<<UnitOf(tokens)>> : tokens \in MergeTokenSeqs}

MergeSpec == MergeInit /\ [][TextNext]_vars

(***************************************************************************)
(* Spec: the process-file handler of main.js running                       *)
(* FileProcessor.processFile.  Invocations interleave at the awaits: while *)
(* the model loads and while the classifier runs.                          *)
(***************************************************************************)
Init == InitEngine /\ InitRenderer(FALSE, 0, TRUE) /\ InitMain /\ queue = <<>>

\* what processFile writes once every text unit of the file is anonymized
OutputContent(kind, texts) == IF kind = "text" THEN <<AnonymizedHeader \o texts[1]>> ELSE texts

\* resolve(true) after the output is written, and the handler's return
Resolved(h, texts) ==
  [h EXCEPT !.pc = "done", !.texts = texts, !.reply = "success",
            !.written = <<[path |-> generateOutputFileName(h.file.name), via |-> "anonymizeText",
                           content |-> OutputContent(FileKind(h.file.name), texts)]>>]

\* the else branch of processFile: fs.copyFileSync(filePath, outputPath)
Copied(h) ==
  [h EXCEPT !.pc = "done", !.reply = "success",
            !.written = <<[path |-> generateOutputFileName(h.file.name), via |-> "copyFileSync",
                           content |-> RawContent(h.file)]>>]

\* mutant of Rejected: on a failure the raw file is written as the output
RejectedFallsBack(h, cause) ==
  [h EXCEPT !.pc = "done", !.reply = "success", !.failed = cause,
            !.written = <<[path |-> generateOutputFileName(h.file.name), via |-> "copyFileSync", content |-> RawContent(h.file)]>>]

\* an await of processFile throws: reject(error), and the handler's catch
\* returns {success: false, error}
Rejected(h, cause) == [h EXCEPT !.pc = "done", !.reply = "failure", !.failed = cause]

\* anonymizeText is entered for the next text unit: await loadNERModel()
\* loads the model when there is none, then ner() is awaited
Entered(h, cell) == [h EXCEPT !.pc = IF nerPipeline = "null" THEN "loading" ELSE "classifying", !.cell = cell]

\* ipcMain.handle('process-file'), up to the first await of processFile
ProcessFile(r, f) ==
  /\ handlers[r].pc = "idle"
  /\ addFileAccepts(f.name)
  /\ LET h == [handlers[r] EXCEPT !.file = f]
         kind == FileKind(f.name)
     IN  /\ handlers' = [handlers EXCEPT ![r] =
                IF kind = "copy" THEN Copied(h)
                ELSE IF kind # "xlsx" /\ ~useLLM THEN Resolved(h, RawContent(f))
                ELSE IF kind = "xlsx" /\ f.cells = <<>> THEN Resolved(h, <<>>)
                ELSE Entered(h, 1)]
         /\ isLLMInitialized' = (isLLMInitialized \/ kind = "copy" \/ (kind = "xlsx" /\ f.cells = <<>>) \/ (kind # "xlsx" /\ ~useLLM))
  /\ UNCHANGED <<pseudonymMapping, pseudonymCounters, nerPipeline, queue, calls, lastCall, journal, rendererVars, ipcLog>>

\* loadNERModel: pipeline(...) resolves and nerPipeline is assigned
ModelLoaded(r) ==
  /\ handlers[r].pc = "loading"
  /\ nerPipeline' = "loaded"
  /\ handlers' = [handlers EXCEPT ![r].pc = "classifying"]
  /\ UNCHANGED <<pseudonymMapping, pseudonymCounters, queue, calls, lastCall, journal, isLLMInitialized, rendererVars, ipcLog>>

\* loadNERModel: pipeline(...) rejects
ModelLoadFails(r) ==
  /\ handlers[r].pc = "loading"
  /\ handlers' = [handlers EXCEPT ![r] = Rejected(handlers[r], "model")]
  /\ UNCHANGED <<pseudonymMapping, pseudonymCounters, nerPipeline, queue, calls, lastCall, journal, isLLMInitialized, rendererVars, ipcLog>>

\* ner(processedText) answers: the rest of anonymizeText runs, then processFile
\* goes on to the next cell or writes the output
ClassifierAnswers(r) ==
  /\ handlers[r].pc = "classifying"
  /\ LET h == handlers[r]
         unit == h.file.cells[h.cell]
         text == anonymizeText(calls + 1, unit.text, unit.predictions, pseudonymMapping, pseudonymCounters).text
         texts == Append(h.texts, text)
     IN  /\ AnonymizeAnswered(unit)
         /\ IF h.cell < Len(h.file.cells)
            THEN /\ handlers' = [handlers EXCEPT ![r] = [Entered(h, h.cell + 1) EXCEPT !.texts = texts]]
                 /\ UNCHANGED isLLMInitialized
            ELSE /\ handlers' = [handlers EXCEPT ![r] = Resolved(h, texts)]
                 /\ isLLMInitialized' = TRUE
  /\ UNCHANGED <<nerPipeline, queue, rendererVars, ipcLog>>

\* ner(processedText) rejects
ClassifierFails(r) ==
  /\ handlers[r].pc = "classifying"
  /\ handlers' = [handlers EXCEPT ![r] = Rejected(handlers[r], "classifier")]
  /\ UNCHANGED <<pseudonymMapping, pseudonymCounters, nerPipeline, queue, calls, lastCall, journal, isLLMInitialized, rendererVars, ipcLog>>

Next ==
  \/ \E r \in Requests, f \in Files : ProcessFile(r, f)
  \/ \E r \in Requests : ModelLoaded(r)
  \/ \E r \in Requests : ModelLoadFails(r)
  \/ \E r \in Requests : ClassifierAnswers(r)
  \/ \E r \in Requests : ClassifierFails(r)

Spec == Init /\ [][Next]_vars

(***************************************************************************)
(* BatchSpec: the renderer.  The user adds files, clears the selection and  *)
(* clicks the process button; the day changes; the main process answers    *)
(* each process-file request with success or failure.                      *)
(* processFiles runs from a click to its first await, and from each answer *)
(* to the next await or to its end.                                        *)
(***************************************************************************)
\* userState.dailyCount > 100, after the increment
OverLimitOffByOne(state) == state.dailyCount > DailyLimit + 1

OverLimit(state) == state.dailyCount > DailyLimit

\* updateProcessButton
updateProcessButton(button, selection) == [button EXCEPT !.disabled = (Len(selection) = 0)]

\* what one run of processFiles leaves behind
Outcome(batch, ended, state, status, selection, button, invoked) ==
  [batch |-> batch, ended |-> ended, userState |-> state, statusDiv |-> status, selectedFiles |-> selection,
   processButton |-> button, invoked |-> invoked]

\* an invocation of processFiles that is over: how it ended ("done" past the
\* loop, "crashed" by the exception), whether a reply was a failure, whether
\* the limit cut it short, and the status on display when it ended
Ended(batch, how, status) == [how |-> how, failed |-> batch.failed, cut |-> batch.cut, shown |-> status]

\* processFiles after its loop: the success status, the button restored,
\* clearState()
AfterLoop(batch, state, button) ==
  LET status == showStatus("Files processed successfully!", "success")
      restored == [disabled |-> FALSE, innerHTML |-> batch.oldButtonText]
  IN  Outcome(NoBatch, Ended(batch, "done", status), state, status, <<>>, updateProcessButton(restored, <<>>), FALSE)

\* processFiles from the head of its loop to the next await of
\* ipcRenderer.invoke, or through the rest of the function
LoopFrom(batch, state, status, selection, button) ==
  IF batch.i >= batch.total THEN AfterLoop(batch, state, button)
  ELSE LET counted == IF state.isPro THEN state ELSE [state EXCEPT !.dailyCount = @ + 1]
       IN  IF ~state.isPro /\ OverLimit(counted)
           THEN AfterLoop([batch EXCEPT !.cut = TRUE], counted, button)
           ELSE IF batch.i + 1 > Len(selection)
           THEN \* selectedFiles[i] is undefined and file.path throws: the promise
                \* of processFiles is rejected, nothing after the loop runs
                Outcome(NoBatch, Ended(batch, "crashed", status), counted, status, selection, button, FALSE)
           ELSE Outcome([batch EXCEPT !.pc = "awaiting", !.file = selection[batch.i + 1]], lastEnded, counted, status, selection, button, TRUE)

\* the assignments of one run of processFiles for invocation b
Ran(b, out, reset) ==
  /\ batches' = [batches EXCEPT ![b] = out.batch]
  /\ lastEnded' = out.ended
  /\ userState' = out.userState
  /\ statusDiv' = out.statusDiv
  /\ selectedFiles' = out.selectedFiles
  /\ processButton' = out.processButton
  /\ sentSinceReset' = (IF reset THEN 0 ELSE sentSinceReset) + (IF out.invoked /\ ~out.userState.isPro THEN 1 ELSE 0)

\* handleInputItems for one dropped or picked file: addFile, updateFileListUI,
\* updateProcessButton
AddFiles(path) ==
  /\ LET added == IF addFileAccepts(path) /\ \A k \in 1..Len(selectedFiles) : selectedFiles[k] # path
                   THEN Append(selectedFiles, path) ELSE selectedFiles
     IN  /\ selectedFiles' = added
         /\ processButton' = updateProcessButton(processButton, added)
         /\ statusDiv' = IF addFileAccepts(path) THEN statusDiv ELSE showStatus("Unsupported file type", "error")
  /\ UNCHANGED <<userState, batches, today, sentSinceReset, clicks, lastEnded, engineVars, ipcLog>>

\* click on Clear Files: clearState
ClearFiles ==
  /\ selectedFiles' = <<>>
  /\ processButton' = updateProcessButton(processButton, <<>>)
  /\ UNCHANGED <<userState, statusDiv, batches, today, sentSinceReset, clicks, lastEnded, engineVars, ipcLog>>

\* click on the process button: processFiles up to its first await
ProcessClick(b) ==
  /\ ~processButton.disabled
  /\ clicks < MaxClicks
  /\ batches[b].pc = "idle"
  /\ \A c \in Batches : c < b => batches[c].pc = "awaiting"
  /\ clicks' = clicks + 1
  /\ LET checked == IF userState.isPro THEN userState ELSE checkDailyReset(userState, today)
         reset == checked.dailyCount # userState.dailyCount \/ checked.dailyDate # userState.dailyDate
         started == [NoBatch EXCEPT !.total = Len(selectedFiles), !.oldButtonText = processButton.innerHTML]
         busy == [disabled |-> TRUE, innerHTML |-> BusyLabel]
     IN  IF Len(selectedFiles) = 0
         THEN UNCHANGED <<userState, selectedFiles, processButton, statusDiv, batches, sentSinceReset, lastEnded>>
         ELSE IF ~checked.isPro /\ checked.dailyCount >= DailyLimit
         THEN /\ userState' = checked
              /\ statusDiv' = showStatus("You've reached your 100-file daily limit.", "error")
              /\ sentSinceReset' = IF reset THEN 0 ELSE sentSinceReset
              /\ UNCHANGED <<selectedFiles, processButton, batches, lastEnded>>
         ELSE Ran(b, LoopFrom(started, checked, statusDiv, selectedFiles, busy), reset)
  /\ UNCHANGED <<today, engineVars, ipcLog>>

\* the await of ipcRenderer.invoke('process-file') resolves with result, and
\* processFiles runs on
ReplyArrives(b, success) ==
  /\ batches[b].pc = "awaiting"
  /\ LET batch == [batches[b] EXCEPT !.failed = @ \/ ~success, !.processedCount = @ + 1, !.i = @ + 1, !.file = <<>>]
         status == IF success THEN statusDiv ELSE showStatus("Error processing file", "error")
     IN  Ran(b, LoopFrom(batch, userState, status, selectedFiles, processButton), FALSE)
  /\ UNCHANGED <<today, clicks, engineVars, ipcLog>>

\* the local date changes
Midnight ==
  /\ today < MaxDays
  /\ today' = today + 1
  /\ UNCHANGED <<userState, selectedFiles, processButton, statusDiv, batches, sentSinceReset, clicks, lastEnded, engineVars, ipcLog>>

BatchInit == InitEngine /\ InitMain /\ queue = <<>> /\ \E isPro \in BOOLEAN, count \in RestoredCounts, disabled \in BOOLEAN : (isPro => count = 0) /\ InitRenderer(isPro, count, disabled)

BatchNext ==
  \/ \E path \in SelectablePaths : AddFiles(path)
  \/ ClearFiles
  \/ \E b \in Batches : ProcessClick(b)
  \/ \E b \in Batches, success \in BOOLEAN : ReplyArrives(b, success)
  \/ Midnight

BatchSpec == BatchInit /\ [][BatchNext]_vars

(***************************************************************************)
(* IpcSpec: the IPC handlers of main.js that receive a path from the       *)
(* renderer, over a small disk.  Each call is logged with the file-system  *)
(* accesses its handler makes outside validateFilePath and                 *)
(* validateDirectoryPath, and with its reply.                              *)
(***************************************************************************)
MaxIpcCalls == 2

\* os.homedir()
userHome == <<"/","h","o","m","e","/","a","l">>

\* The disk.  An alias is a path fs.realpathSync resolves to another one: a
\* symbolic link, or a path with ".." segments.  a-anon.txt is the output of an
\* earlier run on a.txt; out/a.txt is another file of the same name.
Disk ==
  (<<"/","h","o","m","e","/","a","l">> :> [kind |-> "dir", target |-> <<>>]) @@
  (<<"/","h","o","m","e","/","a","l","/","a",".","t","x","t">> :> [kind |-> "file", target |-> <<>>]) @@
  (<<"/","h","o","m","e","/","a","l","/","a","-","a","n","o","n",".","t","x","t">> :> [kind |-> "file", target |-> <<>>]) @@
  (<<"/","h","o","m","e","/","a","l","/","o","u","t">> :> [kind |-> "dir", target |-> <<>>]) @@
  (<<"/","h","o","m","e","/","a","l","/","o","u","t","/","a",".","t","x","t">> :> [kind |-> "file", target |-> <<>>]) @@
  (<<"/","h","o","m","e","/","a","l","/","l",".","t","x","t">> :> [kind |-> "alias", target |-> <<"/","e","t","c","/","p",".","t","x","t">>]) @@
  (<<"/","h","o","m","e","/","a","l","i","c","e">> :> [kind |-> "dir", target |-> <<>>]) @@
  (<<"/","h","o","m","e","/","a","l","i","c","e","/","b",".","t","x","t">> :> [kind |-> "file", target |-> <<>>]) @@
  (<<"/","e","t","c">> :> [kind |-> "dir", target |-> <<>>]) @@
  (<<"/","e","t","c","/","p",".","t","x","t">> :> [kind |-> "file", target |-> <<>>])

\* the paths a request can carry: <<>> is a missing or empty path, x.txt is
\* not on the disk, the last one is a URL
RequestPaths == DOMAIN Disk \cup {<<>>, <<"/","h","o","m","e","/","a","l","/","x",".","t","x","t">>, <<"h","t","t","p","s",":","/","/","a","m","i","c","u","s","5",".","c","o","m">>}

\* the output directories a process-file request can carry; <<>> is null
RequestDirs == {<<>>, <<"/","h","o","m","e","/","a","l","/","o","u","t">>, <<"/","h","o","m","e","/","a","l","i","c","e">>, <<"/","e","t","c">>, <<"/","h","o","m","e","/","a","l","/","a",".","t","x","t">>}

\* String.prototype.startsWith
startsWith(str, prefix) == Len(str) >= Len(prefix) /\ SubSeq(str, 1, Len(prefix)) = prefix

\* fs.existsSync
existsSync(path) == path \in DOMAIN Disk

\* fs.realpathSync of a path that exists
realpathSync(path) == IF Disk[path].kind = "alias" THEN Disk[path].target ELSE path

\* the position of the last "/" of a path
LastSlash(path) == CHOOSE i \in 1..Len(path) : path[i] = "/" /\ \A j \in (i + 1)..Len(path) : path[j] # "/"

\* path.dirname of an absolute path
dirname(path) == IF LastSlash(path) = 1 THEN <<"/">> ELSE SubSeq(path, 1, LastSlash(path) - 1)

\* path.basename of an absolute path
basename(path) == SubSeq(path, LastSlash(path) + 1, Len(path))

\* path.join(directory, name)
join(directory, name) == directory \o <<"/">> \o name

\* what a validation function returns, or the message of the error it throws
Valid(path) == [ok |-> TRUE, path |-> path, error |-> ""]

Throws(message) == [ok |-> FALSE, path |-> <<>>, error |-> message]

validateFilePath(filePath) ==
  IF filePath = <<>> THEN Throws("Invalid file path")
  ELSE IF ~existsSync(filePath) THEN Throws("File does not exist")
  ELSE IF ~startsWith(realpathSync(filePath), userHome) THEN Throws("Access denied: File must be in user directory")
  ELSE IF Disk[realpathSync(filePath)].kind # "file" THEN Throws("Path is not a file")
  ELSE Valid(realpathSync(filePath))

validateDirectoryPath(dirPath) ==
  IF dirPath = <<>> THEN Throws("Invalid directory path")
  ELSE IF ~existsSync(dirPath) THEN Throws("Directory does not exist")
  ELSE IF ~startsWith(realpathSync(dirPath), userHome) THEN Throws("Access denied: Directory must be in user directory")
  ELSE IF Disk[realpathSync(dirPath)].kind # "dir" THEN Throws("Path is not a directory")
  ELSE Valid(realpathSync(dirPath))

\* one file-system access of a handler; validated: the path is one a
\* validation function returned, or a name joined to such a directory
Access(op, path, validated) == [op |-> op, path |-> path, validated |-> validated]

\* one handled call
IpcCall(channel, path, outputDir, accesses, reply) ==
  [channel |-> channel, path |-> path, outputDir |-> outputDir, accesses |-> accesses, reply |-> reply]

\* the handler appends its call to the log
Handled(call) ==
  /\ Len(ipcLog) < MaxIpcCalls
  /\ ipcLog' = Append(ipcLog, call)
  /\ UNCHANGED <<engineVars, rendererVars>>

\* ipcMain.handle('process-file'): the validations, then
\* FileProcessor.processFile(validatedFilePath, outputPath), which reads the
\* input and, unless it rejects, writes the output
HandleProcessFile(filePath, outputDir, resolves) ==
  LET file == validateFilePath(filePath)
      dir == IF outputDir # <<>> THEN validateDirectoryPath(outputDir) ELSE Valid(<<>>)
      directory == IF dir.path # <<>> THEN dir.path ELSE dirname(file.path)
      outputPath == join(directory, generateOutputFileName(basename(file.path)))
  IN  Handled(IF ~file.ok \/ ~dir.ok
              THEN IpcCall("process-file", filePath, outputDir, <<>>, "failure")
              ELSE IF resolves
              THEN IpcCall("process-file", filePath, outputDir, <<Access("read", file.path, TRUE), Access("write", outputPath, TRUE)>>, "success")
              ELSE IpcCall("process-file", filePath, outputDir, <<Access("read", file.path, TRUE)>>, "failure"))

\* ipcMain.handle('open-folder'): a URL is not a path and touches no file
HandleOpenFolder(folderPath) ==
  LET dir == validateDirectoryPath(folderPath)
  IN  Handled(IF folderPath = <<>> \/ startsWith(folderPath, <<"h","t","t","p",":","/","/">>) \/ startsWith(folderPath, <<"h","t","t","p","s",":","/","/">>) \/ ~dir.ok
              THEN IpcCall("open-folder", folderPath, <<>>, <<>>, "undefined")
              ELSE IpcCall("open-folder", folderPath, <<>>, <<Access("openPath", dir.path, TRUE)>>, "undefined"))

\* ipcMain.handle('read-directory')
HandleReadDirectory(dirPath) ==
  LET dir == validateDirectoryPath(dirPath)
  IN  Handled(IF ~dir.ok
              THEN IpcCall("read-directory", dirPath, <<>>, <<>>, "throws")
              ELSE IpcCall("read-directory", dirPath, <<>>, <<Access("readdir", dir.path, TRUE)>>, "files"))

\* ipcMain.handle('get-file-stats'): fs.existsSync(filePath), then
\* fs.statSync(filePath), on the path as received
HandleGetFileStats(filePath) ==
  Handled(IF ~existsSync(filePath)
          THEN IpcCall("get-file-stats", filePath, <<>>, <<Access("exists", filePath, FALSE)>>, "null")
          ELSE IpcCall("get-file-stats", filePath, <<>>, <<Access("exists", filePath, FALSE), Access("stat", filePath, FALSE)>>, "stats"))

\* ipcMain.handle('write-file'): the parent directory is validated and the
\* base name joined to it
HandleWriteFile(filePath) ==
  LET dir == IF filePath = <<>> THEN Throws("Invalid directory path") ELSE validateDirectoryPath(dirname(filePath))
  IN  Handled(IF ~dir.ok
              THEN IpcCall("write-file", filePath, <<>>, <<>>, "throws")
              ELSE IpcCall("write-file", filePath, <<>>, <<Access("write", join(dir.path, basename(filePath)), TRUE)>>, "success"))

IpcInit == InitEngine /\ InitRenderer(FALSE, 0, TRUE) /\ InitMain /\ queue = <<>>

IpcNext ==
  \/ \E filePath \in RequestPaths, outputDir \in RequestDirs, resolves \in BOOLEAN : HandleProcessFile(filePath, outputDir, resolves)
  \/ \E folderPath \in RequestPaths : HandleOpenFolder(folderPath)
  \/ \E dirPath \in RequestPaths : HandleReadDirectory(dirPath)
  \/ \E filePath \in RequestPaths : HandleGetFileStats(filePath)
  \/ \E filePath \in RequestPaths : HandleWriteFile(filePath)

IpcSpec == IpcInit /\ [][IpcNext]_vars

(***************************************************************************)
(* Helpers of the properties                                               *)
(***************************************************************************)
RECURSIVE MatchCountFrom(_, _, _)
MatchCountFrom(pattern, text, pos) ==
  IF pos > Len(text) THEN 0
  ELSE IF MatchAt(pattern, text, pos) = 0 THEN MatchCountFrom(pattern, text, pos + 1)
  ELSE 1 + MatchCountFrom(pattern, text, MatchAt(pattern, text, pos))

\* the number of successive matches of the pattern in the text
MatchCount(pattern, text) == MatchCountFrom(pattern, text, 1)

\* the number of places where sub occurs in text, character for character
Occurrences(sub, text) == Cardinality({i \in 1..(Len(text) - Len(sub) + 1) : SubSeq(text, i, i + Len(sub) - 1) = sub})

\* the steps of the journal that allocated a pseudonym of the given type
AllocationsOf(type) == SelectSeq(journal, LAMBDA s : s.allocated /\ s.type = type)

TypesSeen == {journal[i].type : i \in 1..Len(journal)}

OutsideLabel == <<"O">>

(***************************************************************************)
(* Properties                                                              *)
(***************************************************************************)
\* C1: with a fresh registry, the end-to-end scenario text, with predictions
\* marking John/Smith as PERSON, "123 Main St" as LOCATION and "555-1234" as
\* PHONE, is returned as "PERSON_1 lives at LOCATION_1. Contact PERSON_1 at
\* PHONE_1.", one PERSON pseudonym being allocated and used for both mentions.
C1_EndToEndScenario ==
  (calls = 1 /\ lastCall.text = ScenarioText)
    => /\ lastCall.result = ScenarioExpected
       /\ Len(AllocationsOf(<<"P","E","R","S","O","N">>)) = 1

\* C2: when the text a span is replaced in holds the span's entity twice or
\* more, every occurrence is replaced with one and the same pseudonym of the
\* registry.
C2_BothOccurrencesSamePseudonym ==
  \A i \in 1..Len(lastCall.steps) :
    LET s == lastCall.steps[i]
    IN  (s.pattern # <<>> /\ MatchCount(s.pattern, s.before) >= 2)
          => /\ ~s.value.inherited
             /\ s.text \in DOMAIN pseudonymMapping
             /\ pseudonymMapping[s.text] = s.value.str
             /\ Occurrences(s.value.str, s.after) >= MatchCount(s.pattern, s.before)

\* C3: whenever two span steps, of the same call or of different calls on the
\* shared registry, resolve the same merged text, they get the same pseudonym,
\* whatever was resolved in between.
C3_CrossCallStability ==
  \A i, j \in 1..Len(journal) : journal[i].text = journal[j].text => journal[i].value = journal[j].value

\* C3 witness: a merged text resolved in two different calls, another text
\* having been allocated a pseudonym in between
C3_Witness ==
  \E i, k, j \in 1..Len(journal) :
    /\ i < k /\ k < j
    /\ journal[i].call < journal[j].call
    /\ journal[i].text = journal[j].text
    /\ journal[i].allocated
    /\ journal[k].allocated

\* C4: every text-to-pseudonym entry ever created is still in the registry with
\* the pseudonym it was created with, and no step removes or overwrites an entry.
C4_RegistryRatchet ==
  /\ [](\A i \in 1..Len(journal) :
          journal[i].allocated => /\ journal[i].text \in DOMAIN pseudonymMapping
                                  /\ pseudonymMapping[journal[i].text] = journal[i].value.str)
  /\ [][\A t \in DOMAIN pseudonymMapping : t \in DOMAIN pseudonymMapping' /\ pseudonymMapping'[t] = pseudonymMapping[t]]_vars

\* C4 witness: a registered text was resolved again in a later call after another
\* entry had been added
C4_Witness ==
  /\ Cardinality(DOMAIN pseudonymMapping) >= 2
  /\ \E i, j \in 1..Len(journal) : i < j /\ journal[i].call < journal[j].call /\ journal[i].text = journal[j].text /\ journal[i].allocated

\* C5: for each type, the k-th new text resolved under it gets the suffix k
\* (1, 2, 3, ...), and the type's counter is one more than the number of new
\* texts resolved under it: it advances on a new text and on nothing else.
C5_CounterMonotonicity ==
  /\ DOMAIN pseudonymCounters \subseteq TypesSeen
  /\ \A type \in TypesSeen :
       LET allocs == AllocationsOf(type)
       IN  /\ \A k \in 1..Len(allocs) : allocs[k].value.str = type \o <<"_">> \o NatToChars(k)
           /\ Len(allocs) > 0 => (type \in DOMAIN pseudonymCounters /\ pseudonymCounters[type] = Len(allocs) + 1)
           /\ Len(allocs) = 0 => type \notin DOMAIN pseudonymCounters

\* C5 witness: three new texts were resolved under one type, and a registered
\* text was resolved again under it
C5_Witness ==
  \E type \in TypesSeen :
    /\ Len(AllocationsOf(type)) >= 3
    /\ \E i \in 1..Len(journal) : journal[i].type = type /\ ~journal[i].allocated /\ ~journal[i].value.inherited

\* C6: a merged span for which no pattern can be built (no alphanumeric
\* character in its text) creates no registry entry and advances no counter.
C6_DegenerateSpanNotRegistered ==
  \A i \in 1..Len(journal) : journal[i].pattern = <<>> => (~journal[i].allocated /\ journal[i].text \notin DOMAIN pseudonymMapping)

\* C7: a text whose predictions are all labeled "O" is returned unchanged.
C7_NoEntityInputUnchanged ==
  (calls > 0 /\ \A i \in 1..Len(lastCall.predictions) : lastCall.predictions[i].entity = OutsideLabel)
    => lastCall.result = lastCall.text

\* C8: when anonymizeText returns, its result holds no match of the pattern of
\* any merged span for which a pattern was built.
C8_NoDetectedEntityLeft ==
  \A i \in 1..Len(lastCall.steps) :
    lastCall.steps[i].pattern # <<>> => MatchCount(lastCall.steps[i].pattern, lastCall.result) = 0

\* C9: when the model fails to load or the classifier call fails for a text
\* unit of a file, the handler has returned {success: false, error} for that
\* file and no output has been written for it.
C9_ClassificationFailureIsFatal ==
  \A r \in Requests :
    handlers[r].failed # "none" => (handlers[r].pc = "done" /\ handlers[r].reply = "failure" /\ handlers[r].written = <<>>)

\* C9 witness: the classifier failed on the second cell of a workbook whose
\* first cell had been anonymized, while another file's model load had failed
C9_Witness ==
  \E r, q \in Requests :
    /\ handlers[r].failed = "classifier" /\ handlers[r].cell = 2 /\ Len(handlers[r].texts) = 1
    /\ handlers[q].failed = "model"

\* C10: the output written for a file of a supported type has had every text
\* of the file passed through anonymizeText; it is never a copy of the input.
C10_SupportedFilesAreAnonymized ==
  \A r \in Requests :
    (handlers[r].written # <<>> /\ validateFileType(handlers[r].file.name))
      => /\ handlers[r].written[1].via = "anonymizeText"
         /\ Len(handlers[r].texts) = Len(handlers[r].file.cells)

(***************************************************************************)
(* Helpers of the properties of registry isolation and fuzzy tolerance     *)
(***************************************************************************)
RECURSIVE FreshTexts(_, _, _, _, _)
\* the texts anonymizeText returns for cells[i..], one after another, from the
\* registry given
FreshTexts(cells, i, mapping, counters, texts) ==
  IF i > Len(cells) THEN texts
  ELSE LET done == anonymizeText(0, cells[i].text, cells[i].predictions, mapping, counters)
       IN  FreshTexts(cells, i + 1, done.mapping, done.counters, Append(texts, done.text))

\* what is written for a file processed alone against an empty registry
IsolatedOutput(f) == OutputContent(FileKind(f.name), FreshTexts(f.cells, 1, <<>>, <<>>, <<>>))

MaxVariantChars == 3

MaxSpanCap == 8

\* runs of non-alphanumeric characters put between the characters of a span
Separators == {<<>>, <<" ">>, <<"-">>, <<".", " ">>}

SwapCase(c) ==
  IF IsLower(c) THEN Uppers[CHOOSE i \in 1..26 : Lowers[i] = c]
  ELSE IF IsUpper(c) THEN Lowers[CHOOSE i \in 1..26 : Uppers[i] = c]
  ELSE c

\* [a-zA-Z0-9] characters of a text, in order
AlnumChars(text) == SelectSeq(text, IsAlnum)

RECURSIVE Variants(_)
\* the strings made of the characters cs, each in either case, with a separator
\* run between neighbours
Variants(cs) ==
  IF cs = <<>> THEN {<<>>}
  ELSE IF Len(cs) = 1 THEN {<<cs[1]>>, <<SwapCase(cs[1])>>}
  ELSE {<<c>> \o sep \o rest : c \in {cs[1], SwapCase(cs[1])}, sep \in Separators, rest \in Variants(Tail(cs))}

MergeExampleExpected == <<[type |-> <<"P","E","R">>, text |-> <<"J","o","h","n","S","m","i","t","h">>], [type |-> <<"L","O","C">>, text |-> <<"L","o","n","d","o","n">>]>>

\* C11: the output written for a file is the output the file gets when it is
\* processed alone against an empty registry, whatever was processed before it
\* in the same process.
C11_RegistryIsolation ==
  \A r \in Requests :
    (handlers[r].pc = "done" /\ handlers[r].written # <<>> /\ handlers[r].written[1].via = "anonymizeText")
      => handlers[r].written[1].content = IsolatedOutput(handlers[r].file)

\* C12: the pattern built from "JohnSmith" matches "John Smith", "John-Smith"
\* and "JOHN SMITH" and all three are replaced; and the pattern built from any
\* span matches every string made of the span's alphanumeric characters in
\* either case with runs of non-alphanumeric characters between them.
C12_FuzzyTolerance ==
  /\ (calls = 1 /\ lastCall.text = FuzzyText)
       => /\ Len(lastCall.steps) = 1
          /\ MatchCount(lastCall.steps[1].pattern, FuzzyText) = 3
          /\ Occurrences(lastCall.steps[1].value.str, lastCall.result) = 3
          /\ Occurrences(<<"J","o","h","n"," ","S","m","i","t","h">>, lastCall.result) = 0
          /\ Occurrences(<<"J","o","h","n","-","S","m","i","t","h">>, lastCall.result) = 0
          /\ Occurrences(<<"J","O","H","N"," ","S","M","I","T","H">>, lastCall.result) = 0
  /\ \A i \in 1..Len(lastCall.steps) :
       LET s == lastCall.steps[i]
       IN  (s.pattern # <<>> /\ Len(AlnumChars(s.text)) <= MaxVariantChars)
             => \A v \in Variants(AlnumChars(s.text)) : MatchAt(s.pattern, v, 1) = Len(v) + 1

\* C13: anonymizeText("") returns "" having resolved no span, and the call
\* leaves pseudonymMapping and pseudonymCounters as they were.
C13_EmptyInput ==
  /\ []((calls > 0 /\ lastCall.text = <<>>) => (lastCall.result = <<>> /\ lastCall.steps = <<>>))
  /\ [][(queue # <<>> /\ Head(queue).text = <<>>)
          => (pseudonymMapping' = pseudonymMapping /\ pseudonymCounters' = pseudonymCounters)]_vars

\* C13 witness: the empty string was anonymized against a registry that
\* already held an entry
C13_Witness == calls >= 2 /\ lastCall.text = <<>> /\ DOMAIN pseudonymMapping # {}

\* C14: every merged span of a call is resolved in turn over the text its
\* predecessor left; a span for which no pattern is built leaves the text as it
\* was, and every later span is still resolved and, with a pattern, replaced.
C14_PatternFailureSkipsOnlyThatSpan ==
  LET steps == lastCall.steps
      spans == SelectSeq(lastCall.merged, LAMBDA o : o.text # <<>>)
  IN  /\ Len(steps) = Len(spans)
      /\ \A i \in 1..Len(steps) :
           /\ steps[i].text = spans[i].text
           /\ steps[i].type = spans[i].type
           /\ steps[i].before = (IF i = 1 THEN lastCall.text ELSE steps[i - 1].after)
           /\ steps[i].pattern = <<>> => steps[i].after = steps[i].before
           /\ steps[i].pattern # <<>> => steps[i].after = ReplaceAll(steps[i].pattern, steps[i].before, steps[i].value)
      /\ lastCall.result = (IF steps = <<>> THEN lastCall.text ELSE steps[Len(steps)].after)

\* C14 witness: a span without a pattern was skipped and a later span of the
\* same call was replaced in the text
C14_Witness ==
  \E i, j \in 1..Len(lastCall.steps) :
    /\ i < j
    /\ lastCall.steps[i].pattern = <<>>
    /\ lastCall.steps[j].pattern # <<>>
    /\ lastCall.steps[j].after # lastCall.steps[j].before

\* C15: there is a cap on the length of a span's text such that no pattern is
\* built from a longer span.  The cap ranges over 1..MaxSpanCap.
C15_OversizeSpanSkipped ==
  \E cap \in 1..MaxSpanCap :
    \A i \in 1..Len(journal) : Len(journal[i].text) > cap => journal[i].pattern = <<>>

\* C20: the merger emits no span of type "O", and the merge continuity example
\* merges to [(PER, "JohnSmith"), (LOC, "London")].
C20_OutsideTokensNeverMerged ==
  /\ \A i \in 1..Len(lastCall.merged) : lastCall.merged[i].type # OutsideLabel
  /\ (calls > 0 /\ lastCall.predictions = MergeExamplePredictions) => lastCall.merged = MergeExampleExpected

\* C16: a free user's process-file requests since the last reset of dailyCount
\* never exceed DailyLimit, nor the count itself, whatever the batches.
C16_DailyLimit == sentSinceReset <= DailyLimit /\ sentSinceReset <= userState.dailyCount

\* C16 witness: the limit was reached inside a batch, which stopped before
\* sending its next file
C16_Witness ==
  /\ sentSinceReset = DailyLimit
  /\ userState.dailyCount > DailyLimit
  /\ lastEnded.how = "done" /\ lastEnded.cut

\* C17: a batch that has ended after a process-file call returned
\* success: false, or after the daily limit cut it short, ended with an error
\* status on display.
C17_ErrorsReachTheUser ==
  (lastEnded.how = "done" /\ (lastEnded.failed \/ lastEnded.cut)) => lastEnded.shown.type = "error"

\* the path is the home directory or lies below it
InsideHome(path) == path = userHome \/ startsWith(path, userHome \o <<"/">>)

\* the input of a process-file call resolves to a path inside the home
\* directory, and so does its output directory when one is given
Confined(call) ==
  /\ existsSync(call.path) /\ InsideHome(realpathSync(call.path))
  /\ call.outputDir # <<>> => (existsSync(call.outputDir) /\ InsideHome(realpathSync(call.outputDir)))

\* C18: process-file reads only a file whose real path is inside the home
\* directory and writes only into a directory inside it; for any other input
\* path or output directory it returns {success: false} and touches no file.
C18_PathConfinement ==
  \A k \in 1..Len(ipcLog) :
    ipcLog[k].channel = "process-file"
      => /\ \A n \in 1..Len(ipcLog[k].accesses) :
              LET access == ipcLog[k].accesses[n]
              IN  InsideHome(IF access.op = "write" THEN dirname(access.path) ELSE access.path)
         /\ ~Confined(ipcLog[k]) => (ipcLog[k].reply = "failure" /\ ipcLog[k].accesses = <<>>)

\* C19: every file-system access a path-taking handler makes is on a path
\* that validateFilePath or validateDirectoryPath has passed.
C19_EveryHandlerValidates ==
  \A k \in 1..Len(ipcLog) : \A n \in 1..Len(ipcLog[k].accesses) : ipcLog[k].accesses[n].validated

(***************************************************************************)
(* Helpers of the properties of the merger                                 *)
(***************************************************************************)
\* the predictions whose normalized word is not empty, in order
KeptPredictions(predictions) == SelectSeq(predictions, LAMBDA pred : NormalizeWord(pred.word) # <<>>)

\* what the merger returns for the first k predictions
MergedPrefix(predictions, k) == aggressiveMergeTokens(SubSeq(predictions, 1, k))

\* C21: a token whose normalized text is empty changes nothing, whatever its
\* label: the merger's result with it is the result without it, after the
\* token as before it; and two tokens of one type with only such tokens
\* between them go into one span.
C21_EmptyTokenSkipped ==
  LET preds == lastCall.predictions
  IN  /\ lastCall.merged = aggressiveMergeTokens(KeptPredictions(preds))
      /\ \A k \in 1..Len(preds) :
            NormalizeWord(preds[k].word) = <<>> => MergedPrefix(preds, k) = MergedPrefix(preds, k - 1)
      /\ \A i, j \in 1..Len(preds) :
            (/\ i < j
             /\ NormalizeWord(preds[i].word) # <<>>
             /\ NormalizeWord(preds[j].word) # <<>>
             /\ StripTag(preds[i].entity) = StripTag(preds[j].entity)
             /\ \A k \in (i + 1)..(j - 1) : NormalizeWord(preds[k].word) = <<>>)
              => LET upToI == MergedPrefix(preds, i)
                     upToJ == MergedPrefix(preds, j)
                 IN  /\ Len(upToJ) = Len(upToI)
                     /\ upToJ[Len(upToJ)].type = upToI[Len(upToI)].type
                     /\ upToJ[Len(upToJ)].text = upToI[Len(upToI)].text \o NormalizeWord(preds[j].word)

\* C21 witness: two tokens of one type, with a token of another label whose
\* normalized text is empty between them, were merged into one span
C21_Witness ==
  /\ calls = 1
  /\ Len(lastCall.merged) = 1
  /\ \E i, j \in 1..Len(lastCall.predictions) :
       /\ i + 1 < j
       /\ NormalizeWord(lastCall.predictions[i].word) # <<>>
       /\ NormalizeWord(lastCall.predictions[j].word) # <<>>
       /\ \A k \in (i + 1)..(j - 1) :
            /\ NormalizeWord(lastCall.predictions[k].word) = <<>>
            /\ StripTag(lastCall.predictions[k].entity) # StripTag(lastCall.predictions[i].entity)

(***************************************************************************)
(* Helpers of the properties of the registry                               *)
(***************************************************************************)
\* the steps of a call that resolve, under the given type, a text that was
\* neither in the mapping given nor resolved by an earlier step of the call
FirstResolutions(steps, mapping, type) ==
  {i \in 1..Len(steps) : /\ steps[i].type = type
                         /\ steps[i].text \notin DOMAIN mapping
                         /\ \A j \in 1..(i - 1) : steps[j].text # steps[i].text}

\* the counter of a type as a number: 1 when the type has none
CounterValue(counters, type) == IF type \in DOMAIN counters THEN counters[type] ELSE 1

\* C22: a span whose text is already registered gets the stored pseudonym
\* whatever its type; the call creates no counter and advances none on account
\* of it, and changes no entry: a counter moves only by the number of texts
\* first resolved under its type.
C22_LookupByTextAlone ==
  [][LET steps == lastCall'.steps
     IN  calls' = calls + 1
           => /\ \A i \in 1..Len(steps) :
                   steps[i].text \in DOMAIN pseudonymMapping
                     => /\ steps[i].value = [inherited |-> FALSE, str |-> pseudonymMapping[steps[i].text]]
                        /\ pseudonymMapping'[steps[i].text] = pseudonymMapping[steps[i].text]
              /\ \A type \in DOMAIN pseudonymCounters' \cup {steps[i].type : i \in 1..Len(steps)} :
                   /\ CounterValue(pseudonymCounters', type) - CounterValue(pseudonymCounters, type)
                        <= Cardinality(FirstResolutions(steps, pseudonymMapping, type))
                   /\ (FirstResolutions(steps, pseudonymMapping, type) = {} /\ type \notin DOMAIN pseudonymCounters)
                        => type \notin DOMAIN pseudonymCounters'
              /\ (\A i \in 1..Len(steps) : steps[i].text \in DOMAIN pseudonymMapping)
                   => (pseudonymMapping' = pseudonymMapping /\ pseudonymCounters' = pseudonymCounters)]_vars

\* C22 witness: a text registered under one type in an earlier call was
\* resolved under another type that has no counter, and got the stored pseudonym
C22_Witness ==
  \E i, j \in 1..Len(journal) :
    /\ journal[i].call < journal[j].call
    /\ journal[i].allocated
    /\ journal[i].text = journal[j].text
    /\ journal[i].type # journal[j].type
    /\ journal[j].value = journal[i].value
    /\ journal[j].type \notin DOMAIN pseudonymCounters

(***************************************************************************)
(* Helpers of the properties of the replacement order                      *)
(***************************************************************************)
RECURSIVE MatchIntervalsFrom(_, _, _)
MatchIntervalsFrom(pattern, text, pos) ==
  IF pos > Len(text) THEN {}
  ELSE IF MatchAt(pattern, text, pos) = 0 THEN MatchIntervalsFrom(pattern, text, pos + 1)
  ELSE {<<pos, MatchAt(pattern, text, pos) - 1>>} \cup MatchIntervalsFrom(pattern, text, MatchAt(pattern, text, pos))

\* the successive matches of the pattern in the text, each as <<first, last>>
MatchIntervals(pattern, text) == MatchIntervalsFrom(pattern, text, 1)

\* every place where the pattern matches the text, wherever the match starts
PossibleMatches(pattern, text) == {<<pos, MatchAt(pattern, text, pos) - 1>> : pos \in {q \in 1..Len(text) : MatchAt(pattern, text, q) # 0}}

Overlap(m, n) == m[1] <= n[2] /\ n[1] <= m[2]

RECURSIVE WrittenFrom(_, _, _, _, _, _)
\* For each character of the text a step leaves, the step that wrote it (0 for
\* a character of the source), given the same for the text the step started from.
WrittenFrom(step, me, text, writers, pos, length) ==
  IF pos > Len(text) THEN <<>>
  ELSE LET e == MatchAt(step.pattern, text, pos)
       IN  IF step.pattern = <<>> \/ e = 0
           THEN <<writers[pos]>> \o WrittenFrom(step, me, text, writers, pos + 1, length)
           ELSE [k \in 1..(IF step.value.inherited THEN e - pos ELSE length) |-> me] \o WrittenFrom(step, me, text, writers, e, length)

RECURSIVE WritersBefore(_, _)
\* the writers of the characters of steps[j].before
WritersBefore(steps, j) ==
  IF j = 1 THEN [k \in 1..Len(steps[1].before) |-> 0]
  ELSE WrittenFrom(steps[j - 1], j - 1, steps[j - 1].before, WritersBefore(steps, j - 1), 1, Len(steps[j - 1].value.str))

\* C23: the spans of a call are replaced in the order of the merged list, each
\* in the text its predecessor left; and when a later span's pattern could
\* match text that overlaps a match an earlier span replaced, no match of the
\* later span's pattern, when its turn comes, includes a character the earlier
\* span's replacement put there.
C23_OrderingContract ==
  LET steps == lastCall.steps
  IN  /\ \A i \in 2..Len(steps) : steps[i].before = steps[i - 1].after
      /\ \A i, j \in 1..Len(steps) :
            (/\ i < j
             /\ steps[i].pattern # <<>>
             /\ steps[j].pattern # <<>>
             /\ \E m \in MatchIntervals(steps[i].pattern, steps[i].before), n \in PossibleMatches(steps[j].pattern, steps[i].before) : Overlap(m, n))
              => /\ steps[i].after = ReplaceAll(steps[i].pattern, steps[i].before, steps[i].value)
                 /\ \A n \in MatchIntervals(steps[j].pattern, steps[j].before) :
                      \A q \in n[1]..n[2] : WritersBefore(steps, j)[q] # i

\* C24: at most one process-file request is awaiting its reply at any time,
\* so that at most one text unit is being anonymized against the registry,
\* whatever the user drops or clicks while a batch runs.
C24_OneRequestAtATime == Cardinality({b \in Batches : batches[b].pc = "awaiting"}) <= 1

\* C25: pipeline() is called once: no call of it is under way beside another
\* one, or once nerPipeline holds the model.
C25_ModelLoadedOnce ==
  Cardinality({r \in Requests : handlers[r].pc = "loading"}) + (IF nerPipeline = "loaded" THEN 1 ELSE 0) <= 1

\* "PER_1 lives at LOC_1. Contact PER_1 at EMAIL_1."
Step7Expected == <<"P","E","R","_","1"," ","l","i","v","e","s"," ","a","t"," ","L","O","C","_","1","."," ","C","o","n","t","a","c","t"," ","P","E","R","_","1"," ","a","t"," ","E","M","A","I","L","_","1",".">>

\* C26: every occurrence a span's replacement removes ends with an
\* alphanumeric character, so that what follows the occurrence stays in the
\* text; and the text of the complete example is returned as
\* "PER_1 lives at LOC_1. Contact PER_1 at EMAIL_1.".
C26_SurroundingTextPreserved ==
  /\ \A i \in 1..Len(lastCall.steps) :
       LET s == lastCall.steps[i]
       IN  s.pattern # <<>> => \A m \in MatchIntervals(s.pattern, s.before) : IsAlnum(s.before[m[1]]) /\ IsAlnum(s.before[m[2]])
  /\ (calls = 1 /\ lastCall.text = Step7Text) => lastCall.result = Step7Expected

\* the pseudonyms the registry holds
StoredPseudonyms == {pseudonymMapping[t] : t \in DOMAIN pseudonymMapping}

\* the pseudonyms of a type with the suffixes 1 .. counter - 1
IssuedPseudonyms(type) == {type \o <<"_">> \o NatToChars(n) : n \in 1..(pseudonymCounters[type] - 1)}

\* C27: distinct texts have distinct pseudonyms; every stored pseudonym is
\* TYPE_n with n >= 1; and for every type with a counter, the pseudonyms
\* TYPE_1 .. TYPE_(counter - 1) are all stored, each for exactly one text, and
\* no other pseudonym is stored.
C27_RegistryConsistency ==
  /\ \A t, u \in DOMAIN pseudonymMapping : t # u => pseudonymMapping[t] # pseudonymMapping[u]
  /\ \A type \in DOMAIN pseudonymCounters : pseudonymCounters[type] >= 1
  /\ StoredPseudonyms = UNION {IssuedPseudonyms(type) : type \in DOMAIN pseudonymCounters}
  /\ Cardinality(DOMAIN pseudonymMapping) =
       Cardinality(UNION {{<<type, n>> : n \in 1..(pseudonymCounters[type] - 1)} : type \in DOMAIN pseudonymCounters})

\* C27 witness: the registry holds pseudonyms of two types, two of them of one
\* type, and a registered text has been resolved again
C27_Witness ==
  /\ Cardinality(DOMAIN pseudonymCounters) >= 2
  /\ \E type \in DOMAIN pseudonymCounters : pseudonymCounters[type] >= 3
  /\ \E i \in 1..Len(journal) : ~journal[i].allocated /\ ~journal[i].value.inherited

\* the texts of the spans, in order
SpanTexts(spans) == [i \in 1..Len(spans) |-> spans[i].text]

\* C28: every span the merger emits has a text that is not empty; two
\* neighbouring spans differ in type; and the kept tokens of one type that
\* follow one another are in one span whatever their tags, so that there is one
\* span for each change of type among the kept tokens, and one for the first.
C28_MergerOutputShape ==
  LET merged == lastCall.merged
      kept == KeptPredictions(lastCall.predictions)
      changes == {k \in 2..Len(kept) : StripTag(kept[k].entity) # StripTag(kept[k - 1].entity)}
  IN  /\ \A i \in 1..Len(merged) : merged[i].text # <<>>
      /\ \A i \in 2..Len(merged) : merged[i].type # merged[i - 1].type
      /\ Len(merged) = (IF kept = <<>> THEN 0 ELSE 1 + Cardinality(changes))

\* C28 witness: a token tagged B- went into the span of the token of the same
\* type before it, and the merger emitted two spans
C28_Witness ==
  /\ calls = 1
  /\ Len(lastCall.merged) = 2
  /\ \E k \in 2..Len(lastCall.predictions) :
       /\ lastCall.predictions[k].entity[1] = "B"
       /\ lastCall.predictions[k].entity = lastCall.predictions[k - 1].entity
       /\ NormalizeWord(lastCall.predictions[k].word) # <<>>
       /\ NormalizeWord(lastCall.predictions[k - 1].word) # <<>>

\* C29: the texts of the emitted spans, put together in order, are the
\* normalized words of the kept tokens put together in order: nothing is lost,
\* doubled or moved, and the last accumulator is emitted.
C29_MergerConservation ==
  LET kept == KeptPredictions(lastCall.predictions)
  IN  Concat(SpanTexts(lastCall.merged)) = Concat([k \in 1..Len(kept) |-> NormalizeWord(kept[k].word)])

\* C29 witness: three tokens, one of them dropped and one of them changed by
\* the normalization, were merged into two spans
C29_Witness ==
  /\ calls = 1
  /\ Len(lastCall.predictions) = 3
  /\ Len(lastCall.merged) = 2
  /\ \E k \in 1..3 : NormalizeWord(lastCall.predictions[k].word) = <<>>
  /\ \E k \in 1..3 : NormalizeWord(lastCall.predictions[k].word) \notin {<<>>, lastCall.predictions[k].word}

\* C30: no match of a span's pattern includes a character of a pseudonym that
\* an earlier span of the same call wrote into the text, and the result holds
\* the pseudonym of every replaced span as often as the span was replaced.
C30_PseudonymsStayIntact ==
  LET steps == lastCall.steps
  IN  /\ \A j \in 1..Len(steps) :
            steps[j].pattern # <<>>
              => \A n \in MatchIntervals(steps[j].pattern, steps[j].before) :
                   \A q \in n[1]..n[2] :
                     LET writer == WritersBefore(steps, j)[q]
                     IN  writer = 0 \/ steps[writer].value.inherited
      /\ \A i \in 1..Len(steps) :
            (steps[i].pattern # <<>> /\ ~steps[i].value.inherited)
              => Occurrences(steps[i].value.str, lastCall.result) >= MatchCount(steps[i].pattern, steps[i].before)

\* C31: no invocation of processFiles ends by the exception of reading a
\* selectedFiles index that is not there; each one that ends has gone past its
\* loop, where the process button is enabled again and its label restored.
C31_BatchSurvivesClear == lastEnded.how # "crashed"

\* C32: when an invocation of processFiles goes past its loop and clearState
\* empties the selection, the selection holds no file beyond those the
\* invocation has sent to process-file: no file added meanwhile, or not yet
\* reached, is discarded.
C32_NoSelectedFileLost ==
  [][\A b \in Batches :
       (batches[b].pc = "awaiting" /\ batches'[b].pc = "idle" /\ lastEnded'.how = "done")
         => Len(selectedFiles) <= batches[b].i + 1]_vars

\* the paths a handled call read, and those it wrote
ReadsOf(call) == {call.accesses[n].path : n \in {m \in 1..Len(call.accesses) : call.accesses[m].op = "read"}}

WritesOf(call) == {call.accesses[n].path : n \in {m \in 1..Len(call.accesses) : call.accesses[m].op = "write"}}

\* C33: two process-file calls made with the same output directory for two
\* different input files write different output paths, and neither writes the
\* path the other reads.
C33_OutputsDoNotCollide ==
  \A j, k \in 1..Len(ipcLog) :
    (/\ j # k
     /\ ipcLog[j].channel = "process-file"
     /\ ipcLog[k].channel = "process-file"
     /\ ipcLog[j].outputDir = ipcLog[k].outputDir
     /\ ReadsOf(ipcLog[j]) # ReadsOf(ipcLog[k]))
      => /\ WritesOf(ipcLog[j]) \cap WritesOf(ipcLog[k]) = {}
         /\ WritesOf(ipcLog[j]) \cap ReadsOf(ipcLog[k]) = {}

====
